---- MODULE Spec2Model ----
(***************************************************************************)
(* Model of the two report generators of kubeSize (package capacity):      *)
(*   cluster    cmd/capacity/cluster.go   clusterCmd.RunE                   *)
(*   node-role  unnamed/part_000          nodeRoleCmd.RunE                  *)
(* One behaviour is one invocation of one command against one cluster.     *)
(*                                                                         *)
(* Strings the code inspects (label keys, label values, role names) are    *)
(* sequences of one-character strings, so that HasPrefix, TrimPrefix and   *)
(* sort.Strings are computed as the library computes them.  A resource     *)
(* Quantity is an exact integer (milli-CPU, memory units, pod slots).      *)
(* A node name is only ever compared for equality; it is a number, and 0   *)
(* is the empty name of a pod not assigned to a node.                      *)
(***************************************************************************)
EXTENDS Integers, Sequences, FiniteSets

VARIABLES
    cmd,                  \* which command runs: "cluster" or "node-role"
    apiNodes,             \* the cluster's nodes, in the order the API lists them
    apiPods,              \* the cluster's pods
    pc,                   \* position of RunE
    err,                  \* error returned by RunE ("" is nil)
    nodes,                \* nodes.Items
    clusterCapacityData,  \* cluster.go:56
    nodeRoleCapacityData, \* part_000:66, map role -> record
    roleNames,            \* part_000:67
    i,                    \* index of the node the node-role loop is at
    roles,                \* roles of the current node still to be visited (part_000:111)
    locals,               \* per node iteration: roles and pod figures (part_000:71-109)
    queries,              \* the listing queries issued so far, with their outcome
    displayed             \* the calls made to the renderer

vars == <<cmd, apiNodes, apiPods, pc, err, nodes, clusterCapacityData,
          nodeRoleCapacityData, roleNames, i, roles, locals, queries, displayed>>

---------------------------------------------------------------------------
(* Bounds *)

\* Length of the node list.
MaxNodes == 2

\* Number of listing queries that fail in one invocation.
MaxFailures == 2

---------------------------------------------------------------------------
(* Strings *)

\* The characters used, in ASCII order ('-' 45, '.' 46, '/' 47, '<' 60, '>' 62, letters).
Alphabet ==
    <<"-", ".", "/", "<", ">", "a", "b", "c", "d", "e", "f", "g", "h", "i", "j", "k",
      "l", "m", "n", "o", "p", "q", "r", "s", "t", "u", "v", "w", "x", "y", "z">>

Ord(c) == CHOOSE k \in 1..Len(Alphabet) : Alphabet[k] = c

\* Go's string <: bytewise lexicographic.
StrLess(a, b) ==
    LET n == IF Len(a) < Len(b) THEN Len(a) ELSE Len(b)
        diff == {k \in 1..n : a[k] # b[k]}
    IN  IF diff = {}
        THEN Len(a) < Len(b)
        ELSE LET k == CHOOSE x \in diff : \A y \in diff : x <= y
             IN  Ord(a[k]) < Ord(b[k])

\* strings.HasPrefix
HasPrefix(s, prefix) ==
    Len(s) >= Len(prefix) /\ SubSeq(s, 1, Len(prefix)) = prefix

\* strings.TrimPrefix
TrimPrefix(s, prefix) ==
    IF HasPrefix(s, prefix) THEN SubSeq(s, Len(prefix) + 1, Len(s)) ELSE s

RECURSIVE InsertSorted(_, _)
InsertSorted(s, x) ==
    IF s = <<>> THEN <<x>>
    ELSE IF StrLess(x, Head(s)) THEN <<x>> \o s
    ELSE <<Head(s)>> \o InsertSorted(Tail(s), x)

RECURSIVE SortedOf(_)
SortedOf(s) ==
    IF s = <<>> THEN <<>> ELSE InsertSorted(SortedOf(Tail(s)), Head(s))

\* sort.Strings left unapplied (the list in append order).
SortStringsOmitted(s) == s

\* sort.Strings
SortStrings(s) == SortedOf(s)

NodeRolePrefix ==
    <<"n", "o", "d", "e", "-", "r", "o", "l", "e", ".",
      "k", "u", "b", "e", "r", "n", "e", "t", "e", "s", ".", "i", "o", "/">>

KubeRoleLabel ==
    <<"k", "u", "b", "e", "r", "n", "e", "t", "e", "s", ".", "i", "o", "/", "r", "o", "l", "e">>

NoneRole == <<"<", "n", "o", "n", "e", ">">>

Empty == <<>>

Worker == <<"w", "o", "r", "k", "e", "r">>
Master == <<"m", "a", "s", "t", "e", "r">>
Etcd == <<"e", "t", "c", "d">>
ZoneLabel == <<"z", "o", "n", "e">>

---------------------------------------------------------------------------
(* The cluster the command queries *)

Label(k, v) == [key |-> k, value |-> v]

Condition(t, s) == [Type |-> t, Status |-> s]

\* node.Labels is a map: one value per key.  Label sets seen on nodes.
LabelsNone == {}
LabelsWorker == {Label(NodeRolePrefix \o Worker, Empty)}
LabelsMasterEtcd == {Label(NodeRolePrefix \o Master, Empty), Label(KubeRoleLabel, Etcd)}
LabelsWorkerTwice == {Label(NodeRolePrefix \o Worker, Empty), Label(KubeRoleLabel, Worker)}
LabelsNoRole ==
    {Label(NodeRolePrefix, Empty), Label(KubeRoleLabel, Empty), Label(ZoneLabel, Worker)}

NodeKind(labels, conditions, unschedulable, capacity, allocatable) ==
    [Labels |-> labels, Conditions |-> conditions, Unschedulable |-> unschedulable,
     Capacity |-> capacity, Allocatable |-> allocatable]

Resources(pods, cpu, memory) == [Pods |-> pods, Cpu |-> cpu, Memory |-> memory]

NodeKinds ==
    { NodeKind(LabelsWorker, <<Condition("Ready", "True")>>, FALSE,
               Resources(3, 4000, 8), Resources(2, 3500, 7)),
      NodeKind(LabelsNone, <<Condition("Ready", "False")>>, TRUE,
               Resources(1, 2000, 4), Resources(0, 1000, 2)),
      NodeKind(LabelsMasterEtcd,
               <<Condition("MemoryPressure", "False"), Condition("Ready", "True")>>, FALSE,
               Resources(5, 8000, 16), Resources(4, 7000, 15)),
      NodeKind(LabelsWorkerTwice,
               <<Condition("Ready", "True"), Condition("Ready", "True")>>, FALSE,
               Resources(3, 4000, 8), Resources(3, 4000, 8)),
      NodeKind(LabelsNoRole, <<Condition("MemoryPressure", "True")>>, FALSE,
               Resources(2, 1000, 2), Resources(1, 500, 1)) }

Container(reqCpu, limCpu, reqMem, limMem) ==
    [Requests |-> [Cpu |-> reqCpu, Memory |-> reqMem],
     Limits |-> [Cpu |-> limCpu, Memory |-> limMem]]

Pod(name, nodeName, phase, containers) ==
    [Name |-> name, NodeName |-> nodeName, Phase |-> phase, Containers |-> containers]

\* Pods that may exist.  NodeName 0: not assigned to a node.
PodChoices ==
    { Pod("a", 1, "Running", <<Container(500, 1000, 1, 2)>>),
      Pod("b", 1, "Succeeded", <<Container(100, 200, 1, 1)>>),
      Pod("c", 0, "Pending", <<Container(250, 0, 1, 0), Container(250, 500, 0, 3)>>),
      Pod("d", 2, "Running", <<Container(3000, 0, 4, 4), Container(1000, 6000, 5, 0)>>) }

\* The node lists the API may return: node k of the list is named k.
NodeLists ==
    UNION { [1..n -> NodeKinds] : n \in 0..MaxNodes }

NamedNodes(kinds) ==
    [k \in 1..Len(kinds) |->
        [Name |-> k, Labels |-> kinds[k].Labels, Conditions |-> kinds[k].Conditions,
         Unschedulable |-> kinds[k].Unschedulable, Capacity |-> kinds[k].Capacity,
         Allocatable |-> kinds[k].Allocatable]]

---------------------------------------------------------------------------
(* output.ClusterCapacityData and the Quantity sums *)

ZeroData ==
    [TotalNodeCount |-> 0, TotalReadyNodeCount |-> 0, TotalUnreadyNodeCount |-> 0,
     TotalUnschedulableNodeCount |-> 0, TotalPodCount |-> 0, TotalNonTermPodCount |-> 0,
     TotalAvailablePods |-> 0,
     TotalCapacityPods |-> 0, TotalCapacityCPU |-> 0, TotalCapacityMemory |-> 0,
     TotalAllocatablePods |-> 0, TotalAllocatableCPU |-> 0, TotalAllocatableMemory |-> 0,
     TotalAvailableCPU |-> 0, TotalAvailableMemory |-> 0,
     TotalRequestsCPU |-> 0, TotalLimitsCPU |-> 0,
     TotalRequestsMemory |-> 0, TotalLimitsMemory |-> 0]

\* Quantity.Add over the values of a function with a finite domain.
RECURSIVE SumFn(_)
SumFn(f) ==
    IF DOMAIN f = {} THEN 0
    ELSE LET x == CHOOSE y \in DOMAIN f : TRUE
         IN  f[x] + SumFn([y \in DOMAIN f \ {x} |-> f[y]])

\* Number of conditions of the node with type Ready and status True.
ReadyConditions(node) ==
    Cardinality({k \in 1..Len(node.Conditions) :
                    node.Conditions[k].Type = "Ready" /\ node.Conditions[k].Status = "True"})

---------------------------------------------------------------------------
(* The cluster API, as the typed client presents it *)

Terminated(pod) == pod.Phase \in {"Succeeded", "Failed"}

\* Pods("").List with a field selector: spec.nodeName=<name> when byNode,
\* status.phase!=Succeeded,status.phase!=Failed when nonTerminated.
\* A failed List leaves Items empty: the typed client returns the empty list
\* it allocated together with the error.
PodsList(ok, byNode, name, nonTerminated) ==
    IF ok
    THEN {pod \in apiPods : /\ (byNode => pod.NodeName = name)
                            /\ (nonTerminated => ~Terminated(pod))}
    ELSE {}

\* The four sums over the containers of the listed pods.
ContainerSums(items) ==
    LET over(f(_)) ==
            SumFn([pod \in items |->
                     SumFn([k \in 1..Len(pod.Containers) |-> f(pod.Containers[k])])])
        reqCpu(c) == c.Requests.Cpu
        limCpu(c) == c.Limits.Cpu
        reqMem(c) == c.Requests.Memory
        limMem(c) == c.Limits.Memory
    IN  [totalRequestsCPU |-> over(reqCpu), totalLimitsCPU |-> over(limCpu),
         totalRequestsMemory |-> over(reqMem), totalLimitsMemory |-> over(limMem)]

Query(kind, name, ok) == [kind |-> kind, node |-> name, ok |-> ok]

\* Whether the next query may have outcome ok, within the bound on failures.
Outcome(ok) ==
    ok \/ Cardinality({k \in 1..Len(queries) : ~queries[k].ok}) < MaxFailures

---------------------------------------------------------------------------
(* Both commands: client set and node listing *)

Return(e) ==
    /\ pc' = "returned"
    /\ err' = e

CreateClientSet(ok) ==
    /\ pc = "start"
    /\ IF ok
       THEN pc' = "listNodes" /\ err' = err
       ELSE Return("failed to create clientset")
    /\ UNCHANGED <<cmd, apiNodes, apiPods, nodes, clusterCapacityData, nodeRoleCapacityData,
                   roleNames, i, roles, locals, queries, displayed>>

---------------------------------------------------------------------------
(* cluster: clusterCmd.RunE *)

\* One iteration of the node loop, cluster.go:59-73.
ClusterAddNode(d, node) ==
    [d EXCEPT
        !.TotalNodeCount = @ + 1,
        !.TotalReadyNodeCount = @ + ReadyConditions(node),
        !.TotalUnschedulableNodeCount = IF node.Unschedulable THEN @ + 1 ELSE @,
        !.TotalCapacityPods = @ + node.Capacity.Pods,
        !.TotalCapacityCPU = @ + node.Capacity.Cpu,
        !.TotalCapacityMemory = @ + node.Capacity.Memory,
        !.TotalAllocatablePods = @ + node.Allocatable.Pods,
        !.TotalAllocatableCPU = @ + node.Allocatable.Cpu,
        !.TotalAllocatableMemory = @ + node.Allocatable.Memory]

RECURSIVE ClusterNodeLoop(_, _)
ClusterNodeLoop(d, items) ==
    IF items = <<>> THEN d
    ELSE ClusterNodeLoop(ClusterAddNode(d, Head(items)), Tail(items))

\* cluster.go:56-75: the node pass, then the unready count.
ClusterNodePass(items) ==
    LET d == ClusterNodeLoop(ZeroData, items)
    IN  [d EXCEPT !.TotalUnreadyNodeCount = d.TotalNodeCount - d.TotalReadyNodeCount]

ClusterListNodes(ok) ==
    /\ cmd = "cluster"
    /\ pc = "listNodes"
    /\ Outcome(ok)
    /\ queries' = Append(queries, Query("nodes", 0, ok))
    /\ IF ok
       THEN /\ nodes' = apiNodes
            /\ clusterCapacityData' = ClusterNodePass(apiNodes)
            /\ pc' = "listPods"
            /\ err' = err
       ELSE /\ Return("failed to list nodes")
            /\ UNCHANGED <<nodes, clusterCapacityData>>
    /\ UNCHANGED <<cmd, apiNodes, apiPods, nodeRoleCapacityData, roleNames, i, roles,
                   locals, displayed>>

\* cluster.go:77-78: the error of the listing is overwritten at line 81, unread.
ClusterListPods(ok) ==
    /\ cmd = "cluster"
    /\ pc = "listPods"
    /\ Outcome(ok)
    /\ queries' = Append(queries, Query("pods", 0, ok))
    /\ LET totalPodsList == PodsList(ok, FALSE, 0, FALSE)
       IN  clusterCapacityData' =
               [clusterCapacityData EXCEPT !.TotalPodCount = Cardinality(totalPodsList)]
    /\ pc' = "listNonTermPods"
    /\ UNCHANGED <<cmd, apiNodes, apiPods, err, nodes, nodeRoleCapacityData, roleNames,
                   i, roles, locals, displayed>>

\* cluster.go:81-95: the selector is a constant that parses; the error of the
\* listing is never read.
ClusterListNonTermPods(ok) ==
    /\ cmd = "cluster"
    /\ pc = "listNonTermPods"
    /\ Outcome(ok)
    /\ queries' = Append(queries, Query("nonTermPods", 0, ok))
    /\ LET totalNonTermPodsList == PodsList(ok, FALSE, 0, TRUE)
           sums == ContainerSums(totalNonTermPodsList)
       IN  clusterCapacityData' =
               [clusterCapacityData EXCEPT
                   !.TotalNonTermPodCount = Cardinality(totalNonTermPodsList),
                   !.TotalRequestsCPU = @ + sums.totalRequestsCPU,
                   !.TotalLimitsCPU = @ + sums.totalLimitsCPU,
                   !.TotalRequestsMemory = @ + sums.totalRequestsMemory,
                   !.TotalLimitsMemory = @ + sums.totalLimitsMemory]
    /\ pc' = "display"
    /\ UNCHANGED <<cmd, apiNodes, apiPods, err, nodes, nodeRoleCapacityData, roleNames,
                   i, roles, locals, displayed>>

\* cluster.go:97-103
ClusterDisplay ==
    /\ cmd = "cluster"
    /\ pc = "display"
    /\ displayed' = Append(displayed, [data |-> clusterCapacityData])
    /\ Return("")
    /\ UNCHANGED <<cmd, apiNodes, apiPods, nodes, clusterCapacityData, nodeRoleCapacityData,
                   roleNames, i, roles, locals, queries>>

---------------------------------------------------------------------------
(* node-role: nodeRoleCmd.RunE *)

\* The switch without the len(role) > 0 test of its first case.
RolesOfLabelKeepEmpty(label) ==
    IF HasPrefix(label.key, NodeRolePrefix)
    THEN {TrimPrefix(label.key, NodeRolePrefix)}
    ELSE IF label.key = KubeRoleLabel /\ label.value # Empty
         THEN {label.value}
         ELSE {}

\* The switch of part_000:73-80 for one label.
RolesOfLabel(label) ==
    IF HasPrefix(label.key, NodeRolePrefix)
    THEN LET role == TrimPrefix(label.key, NodeRolePrefix)
         IN  IF Len(role) > 0 THEN {role} ELSE {}
    ELSE IF label.key = KubeRoleLabel /\ label.value # Empty
         THEN {label.value}
         ELSE {}

\* part_000:71-84: the set `roles` of a node.
NodeRoles(node) ==
    LET found == UNION {RolesOfLabel(label) : label \in node.Labels}
    IN  IF Cardinality(found) = 0 THEN {NoneRole} ELSE found

\* The branch of an existing role with the pod counts left out.
AddNodeToRoleNoPods(d, node, loc) ==
    LET n == [d EXCEPT
                !.TotalNodeCount = @ + 1,
                !.TotalReadyNodeCount = @ + ReadyConditions(node)]
    IN  [n EXCEPT
            !.TotalUnreadyNodeCount = n.TotalNodeCount - n.TotalReadyNodeCount,
            !.TotalUnschedulableNodeCount = IF node.Unschedulable THEN @ + 1 ELSE @,
            !.TotalCapacityPods = @ + node.Capacity.Pods,
            !.TotalCapacityCPU = @ + node.Capacity.Cpu,
            !.TotalCapacityMemory = @ + node.Capacity.Memory,
            !.TotalAllocatablePods = @ + node.Allocatable.Pods,
            !.TotalAllocatableCPU = @ + node.Allocatable.Cpu,
            !.TotalAllocatableMemory = @ + node.Allocatable.Memory,
            !.TotalRequestsCPU = @ + loc.totalRequestsCPU,
            !.TotalLimitsCPU = @ + loc.totalLimitsCPU,
            !.TotalRequestsMemory = @ + loc.totalRequestsMemory,
            !.TotalLimitsMemory = @ + loc.totalLimitsMemory]

\* part_000:113-134: the role has a record already.
AddNodeToRole(d, node, loc) ==
    LET n == [d EXCEPT
                !.TotalNodeCount = @ + 1,
                !.TotalReadyNodeCount = @ + ReadyConditions(node)]
    IN  [n EXCEPT
            !.TotalUnreadyNodeCount = n.TotalNodeCount - n.TotalReadyNodeCount,
            !.TotalUnschedulableNodeCount = IF node.Unschedulable THEN @ + 1 ELSE @,
            !.TotalCapacityPods = @ + node.Capacity.Pods,
            !.TotalCapacityCPU = @ + node.Capacity.Cpu,
            !.TotalCapacityMemory = @ + node.Capacity.Memory,
            !.TotalAllocatablePods = @ + node.Allocatable.Pods,
            !.TotalAllocatableCPU = @ + node.Allocatable.Cpu,
            !.TotalAllocatableMemory = @ + node.Allocatable.Memory,
            !.TotalRequestsCPU = @ + loc.totalRequestsCPU,
            !.TotalLimitsCPU = @ + loc.totalLimitsCPU,
            !.TotalRequestsMemory = @ + loc.totalRequestsMemory,
            !.TotalLimitsMemory = @ + loc.totalLimitsMemory,
            !.TotalPodCount = @ + loc.totalPodCount,
            !.TotalNonTermPodCount = @ + loc.nonTerminatedPodCount]

\* part_000:137-159: the first node of a role.  The unready count is written
\* only inside the Ready test, and only with 0.
NewRoleData(node, loc) ==
    [ZeroData EXCEPT
        !.TotalNodeCount = 1,
        !.TotalReadyNodeCount = IF ReadyConditions(node) > 0 THEN 1 ELSE @,
        !.TotalUnreadyNodeCount = IF ReadyConditions(node) > 0 THEN 0 ELSE @,
        !.TotalUnschedulableNodeCount = IF node.Unschedulable THEN 1 ELSE @,
        !.TotalCapacityPods = @ + node.Capacity.Pods,
        !.TotalCapacityCPU = @ + node.Capacity.Cpu,
        !.TotalCapacityMemory = @ + node.Capacity.Memory,
        !.TotalAllocatablePods = @ + node.Allocatable.Pods,
        !.TotalAllocatableCPU = @ + node.Allocatable.Cpu,
        !.TotalAllocatableMemory = @ + node.Allocatable.Memory,
        !.TotalRequestsCPU = @ + loc.totalRequestsCPU,
        !.TotalLimitsCPU = @ + loc.totalLimitsCPU,
        !.TotalRequestsMemory = @ + loc.totalRequestsMemory,
        !.TotalLimitsMemory = @ + loc.totalLimitsMemory,
        !.TotalPodCount = @ + loc.totalPodCount,
        !.TotalNonTermPodCount = @ + loc.nonTerminatedPodCount]

\* The derived fields with negative values replaced by zero.
DerivedFieldsClamped(d) ==
    LET pos(x) == IF x < 0 THEN 0 ELSE x
    IN  [d EXCEPT
            !.TotalAvailablePods = pos(d.TotalAllocatablePods - d.TotalNonTermPodCount),
            !.TotalAvailableCPU = pos(d.TotalAllocatableCPU - d.TotalRequestsCPU),
            !.TotalAvailableMemory = pos(d.TotalAllocatableMemory - d.TotalRequestsMemory)]

\* part_000:167-171 for one role.
DerivedFields(d) ==
    [d EXCEPT
        !.TotalAvailablePods = d.TotalAllocatablePods - d.TotalNonTermPodCount,
        !.TotalAvailableCPU = d.TotalAllocatableCPU - d.TotalRequestsCPU,
        !.TotalAvailableMemory = d.TotalAllocatableMemory - d.TotalRequestsMemory]

\* part_000:166-172: the loop over roleNames.
RECURSIVE Finalized(_, _)
Finalized(data, names) ==
    IF names = <<>> THEN data
    ELSE Finalized([data EXCEPT ![Head(names)] = DerivedFields(@)], Tail(names))

NodeRoleListNodes(ok) ==
    /\ cmd = "node-role"
    /\ pc = "listNodes"
    /\ Outcome(ok)
    /\ queries' = Append(queries, Query("nodes", 0, ok))
    /\ IF ok
       THEN /\ nodes' = apiNodes
            /\ i' = 1
            /\ pc' = "nodeLoop"
            /\ err' = err
       ELSE /\ Return("failed to list nodes")
            /\ UNCHANGED <<nodes, i>>
    /\ UNCHANGED <<cmd, apiNodes, apiPods, clusterCapacityData, nodeRoleCapacityData,
                   roleNames, roles, locals, displayed>>

\* part_000:69-91: the roles of node i and its unfiltered pod listing.  The
\* selector of a node name parses; the error of the listing is overwritten at
\* line 93, unread.
NodeRoleListNodePods(ok) ==
    /\ cmd = "node-role"
    /\ pc = "nodeLoop"
    /\ Outcome(ok)
    /\ i <= Len(nodes)
    /\ queries' = Append(queries, Query("pods", nodes[i].Name, ok))
    /\ LET nodePodsList == PodsList(ok, TRUE, nodes[i].Name, FALSE)
       IN  locals' = Append(locals,
               [roles |-> NodeRoles(nodes[i]),
                totalPodCount |-> Cardinality(nodePodsList),
                nonTerminatedPodCount |-> 0,
                totalRequestsCPU |-> 0, totalLimitsCPU |-> 0,
                totalRequestsMemory |-> 0, totalLimitsMemory |-> 0])
    /\ pc' = "listNodeNonTermPods"
    /\ UNCHANGED <<cmd, apiNodes, apiPods, err, nodes, clusterCapacityData,
                   nodeRoleCapacityData, roleNames, i, roles, displayed>>

\* part_000:93-109: the non-terminated listing of node i and the container
\* sums; the error of the listing is never read.
NodeRoleListNodeNonTermPods(ok) ==
    /\ cmd = "node-role"
    /\ pc = "listNodeNonTermPods"
    /\ Outcome(ok)
    /\ queries' = Append(queries, Query("nonTermPods", nodes[i].Name, ok))
    /\ LET totalNonTermPodsList == PodsList(ok, TRUE, nodes[i].Name, TRUE)
           sums == ContainerSums(totalNonTermPodsList)
       IN  locals' = [locals EXCEPT ![i] =
               [@ EXCEPT
                   !.nonTerminatedPodCount = Cardinality(totalNonTermPodsList),
                   !.totalRequestsCPU = sums.totalRequestsCPU,
                   !.totalLimitsCPU = sums.totalLimitsCPU,
                   !.totalRequestsMemory = sums.totalRequestsMemory,
                   !.totalLimitsMemory = sums.totalLimitsMemory]]
    /\ roles' = locals[i].roles
    /\ pc' = "roleLoop"
    /\ UNCHANGED <<cmd, apiNodes, apiPods, err, nodes, clusterCapacityData,
                   nodeRoleCapacityData, roleNames, i, displayed>>

\* part_000:111-162: one iteration of `for role := range roles`; the set is a
\* Go map, visited in any order.
NodeRoleAccumulate ==
    /\ cmd = "node-role"
    /\ pc = "roleLoop"
    /\ \E role \in roles :
        /\ IF role \in DOMAIN nodeRoleCapacityData
           THEN /\ nodeRoleCapacityData' =
                       [nodeRoleCapacityData EXCEPT
                           ![role] = AddNodeToRole(@, nodes[i], locals[i])]
                /\ roleNames' = roleNames
           ELSE /\ roleNames' = Append(roleNames, role)
                /\ nodeRoleCapacityData' =
                       [r \in DOMAIN nodeRoleCapacityData \cup {role} |->
                           IF r = role THEN NewRoleData(nodes[i], locals[i])
                           ELSE nodeRoleCapacityData[r]]
        /\ roles' = roles \ {role}
        /\ IF roles \ {role} = {}
           THEN i' = i + 1 /\ pc' = "nodeLoop"
           ELSE i' = i /\ pc' = pc
    /\ UNCHANGED <<cmd, apiNodes, apiPods, err, nodes, clusterCapacityData, locals,
                   queries, displayed>>

\* part_000:166-184: derived fields, sort, hand-off to the renderer.
NodeRoleDisplay ==
    /\ cmd = "node-role"
    /\ pc = "nodeLoop"
    /\ i > Len(nodes)
    /\ nodeRoleCapacityData' = Finalized(nodeRoleCapacityData, roleNames)
    /\ roleNames' = SortStrings(roleNames)
    /\ displayed' = Append(displayed,
           [data |-> nodeRoleCapacityData', roleNames |-> roleNames'])
    /\ Return("")
    /\ UNCHANGED <<cmd, apiNodes, apiPods, nodes, clusterCapacityData, i, roles, locals,
                   queries>>

---------------------------------------------------------------------------
(* Specification *)

Init ==
    /\ cmd \in {"cluster", "node-role"}
    /\ \E kinds \in NodeLists : apiNodes = NamedNodes(kinds)
    /\ apiPods \in SUBSET PodChoices
    /\ pc = "start"
    /\ err = ""
    /\ nodes = <<>>
    /\ clusterCapacityData = ZeroData
    /\ nodeRoleCapacityData = [r \in {} |-> ZeroData]
    /\ roleNames = <<>>
    /\ i = 0
    /\ roles = {}
    /\ locals = <<>>
    /\ queries = <<>>
    /\ displayed = <<>>

Next ==
    \/ \E ok \in BOOLEAN : CreateClientSet(ok)
    \/ \E ok \in BOOLEAN : ClusterListNodes(ok)
    \/ \E ok \in BOOLEAN : ClusterListPods(ok)
    \/ \E ok \in BOOLEAN : ClusterListNonTermPods(ok)
    \/ ClusterDisplay
    \/ \E ok \in BOOLEAN : NodeRoleListNodes(ok)
    \/ \E ok \in BOOLEAN : NodeRoleListNodePods(ok)
    \/ \E ok \in BOOLEAN : NodeRoleListNodeNonTermPods(ok)
    \/ NodeRoleAccumulate
    \/ NodeRoleDisplay

Spec == Init /\ [][Next]_vars

---------------------------------------------------------------------------
(* Vocabulary of the properties *)

ClusterRendered == cmd = "cluster" /\ displayed # <<>>

NodeRoleRendered == cmd = "node-role" /\ displayed # <<>>

SomeQueryFailed == \E k \in 1..Len(queries) : ~queries[k].ok

NoQueryFailed == \A k \in 1..Len(queries) : queries[k].ok

\* A node is Ready when some condition has type Ready and status True.
IsReady(node) ==
    \E k \in 1..Len(node.Conditions) :
        node.Conditions[k].Type = "Ready" /\ node.Conditions[k].Status = "True"

\* The strings that can be the role named by a label: what follows the first
\* Len(NodeRolePrefix) characters of its key, and its value.
RoleCandidates(node) ==
    UNION {{SubSeq(l.key, Len(NodeRolePrefix) + 1, Len(l.key)), l.value} :
            l \in node.Labels}

\* The roles the labels of a node name: r is one when it is not empty and some
\* key is node-role.kubernetes.io/ followed by r, or kubernetes.io/role has value r.
LabelRoles(node) ==
    {r \in RoleCandidates(node) :
        /\ r # Empty
        /\ \E l \in node.Labels :
              \/ l.key = NodeRolePrefix \o r
              \/ l.key = KubeRoleLabel /\ l.value = r}

\* The roles a node is to be placed under.
PlacedRoles(node) ==
    IF LabelRoles(node) = {} THEN {NoneRole} ELSE LabelRoles(node)

\* The nodes of the listing that belong to role r.
Members(r) == {k \in 1..Len(nodes) : r \in PlacedRoles(nodes[k])}

RolesObserved == UNION {PlacedRoles(nodes[k]) : k \in 1..Len(nodes)}

\* Lexicographic order, character by character.
RECURSIVE LexLess(_, _)
LexLess(a, b) ==
    IF b = <<>> THEN FALSE
    ELSE IF a = <<>> THEN TRUE
    ELSE IF Head(a) = Head(b) THEN LexLess(Tail(a), Tail(b))
    ELSE Ord(Head(a)) < Ord(Head(b))

AvailableIsAllocatableMinusUsed(d) ==
    /\ d.TotalAvailablePods = d.TotalAllocatablePods - d.TotalNonTermPodCount
    /\ d.TotalAvailableCPU = d.TotalAllocatableCPU - d.TotalRequestsCPU
    /\ d.TotalAvailableMemory = d.TotalAllocatableMemory - d.TotalRequestsMemory

---------------------------------------------------------------------------
(* Properties *)

\* C1: the cluster record handed to the renderer has its derived fields set:
\* available pods = allocatable pods - non-terminated pods, available CPU and
\* memory = allocatable - requested.
C1_ClusterDerivedFieldsSet ==
    ClusterRendered => AvailableIsAllocatableMinusUsed(displayed[1].data)

\* C2: in the cluster command a failed listing query aborts the report: an
\* error is returned and nothing is rendered.
C2_ClusterQueryFailureAborts ==
    (cmd = "cluster" /\ SomeQueryFailed) =>
        /\ displayed = <<>>
        /\ pc = "returned"
        /\ err # ""

\* C3: every rendered role record has unready = total - ready.
C3_RoleUnreadyIsTotalMinusReady ==
    NodeRoleRendered =>
        \A r \in DOMAIN displayed[1].data :
            LET d == displayed[1].data[r]
            IN  d.TotalUnreadyNodeCount = d.TotalNodeCount - d.TotalReadyNodeCount

\* C4: in the node-role command the first failed query stops the generation:
\* it is the last query issued, an error is returned, nothing is rendered.
C4_NodeRoleFirstFailureStops ==
    cmd = "node-role" =>
        \A k \in 1..Len(queries) :
            ~queries[k].ok =>
                /\ k = Len(queries)
                /\ displayed = <<>>
                /\ pc = "returned"
                /\ err # ""

\* C5: every role record is the sum of the full contributions of exactly the
\* nodes that have the role (node count, capacity, allocatable, the pod counts
\* and container sums obtained for the node); there is a record for each role
\* of each node and no other; the node counts of the records add up to the
\* sizes of the nodes' role sets.
C5_FullContributionToEachRole ==
    NodeRoleRendered =>
        LET data == displayed[1].data
        IN  /\ DOMAIN data = RolesObserved
            /\ \A r \in DOMAIN data :
                 LET d == data[r]
                     m == Members(r)
                 IN  /\ d.TotalNodeCount = Cardinality(m)
                     /\ d.TotalCapacityPods = SumFn([k \in m |-> nodes[k].Capacity.Pods])
                     /\ d.TotalCapacityCPU = SumFn([k \in m |-> nodes[k].Capacity.Cpu])
                     /\ d.TotalCapacityMemory = SumFn([k \in m |-> nodes[k].Capacity.Memory])
                     /\ d.TotalAllocatablePods = SumFn([k \in m |-> nodes[k].Allocatable.Pods])
                     /\ d.TotalAllocatableCPU = SumFn([k \in m |-> nodes[k].Allocatable.Cpu])
                     /\ d.TotalAllocatableMemory =
                            SumFn([k \in m |-> nodes[k].Allocatable.Memory])
                     /\ d.TotalPodCount = SumFn([k \in m |-> locals[k].totalPodCount])
                     /\ d.TotalNonTermPodCount =
                            SumFn([k \in m |-> locals[k].nonTerminatedPodCount])
                     /\ d.TotalRequestsCPU = SumFn([k \in m |-> locals[k].totalRequestsCPU])
                     /\ d.TotalLimitsCPU = SumFn([k \in m |-> locals[k].totalLimitsCPU])
                     /\ d.TotalRequestsMemory =
                            SumFn([k \in m |-> locals[k].totalRequestsMemory])
                     /\ d.TotalLimitsMemory = SumFn([k \in m |-> locals[k].totalLimitsMemory])
            /\ SumFn([r \in DOMAIN data |-> data[r].TotalNodeCount]) =
                   SumFn([k \in 1..Len(nodes) |-> Cardinality(PlacedRoles(nodes[k]))])
            /\ NoQueryFailed =>
                 \A k \in 1..Len(nodes) :
                     /\ locals[k].totalPodCount =
                            Cardinality({pod \in apiPods : pod.NodeName = nodes[k].Name})
                     /\ locals[k].nonTerminatedPodCount =
                            Cardinality({pod \in apiPods :
                                pod.NodeName = nodes[k].Name /\ ~Terminated(pod)})

\* Witness of C5: a rendered report with a node of two roles that has pods, one
\* of whose roles also has another node.
C5_Witness ==
    /\ NodeRoleRendered
    /\ \E k \in 1..Len(nodes) :
          /\ Cardinality(PlacedRoles(nodes[k])) = 2
          /\ locals[k].nonTerminatedPodCount > 0
          /\ \E r \in PlacedRoles(nodes[k]) : Cardinality(Members(r)) > 1

\* C6: the set of roles a node is accumulated under is the set of roles its
\* labels name, or <none> alone when they name none; <none> never accompanies a
\* named role.
C6_RoleDerivation ==
    cmd = "node-role" =>
        /\ \A k \in 1..Len(locals) :
              /\ LabelRoles(nodes[k]) = {} => locals[k].roles = {NoneRole}
              /\ LabelRoles(nodes[k]) # {} =>
                    /\ locals[k].roles = LabelRoles(nodes[k])
                    /\ NoneRole \notin locals[k].roles
        /\ roles \subseteq (IF pc = "roleLoop" THEN locals[i].roles ELSE {})
        /\ displayed # <<>> =>
              \A r \in RolesObserved \cup DOMAIN displayed[1].data :
                  /\ r \in DOMAIN displayed[1].data
                  /\ displayed[1].data[r].TotalNodeCount = Cardinality(Members(r))

\* Witness of C6: a rendered report with a node whose labels look like role
\* labels and name no role, next to a node with a named role.
C6_Witness ==
    /\ NodeRoleRendered
    /\ \E k \in 1..Len(nodes) :
          /\ nodes[k].Labels = LabelsNoRole
          /\ locals[k].roles = {NoneRole}
    /\ \E k \in 1..Len(nodes) : LabelRoles(nodes[k]) # {}

\* C7: the rendered cluster record has TotalPodCount >= TotalNonTermPodCount.
C7_ClusterPodCountAtLeastNonTerm ==
    ClusterRendered =>
        displayed[1].data.TotalPodCount >= displayed[1].data.TotalNonTermPodCount

\* C8: the role-name list handed to the renderer is in strictly ascending
\* lexicographic order (so without duplicates) and its names are exactly the
\* keys of the role map, which are exactly the roles observed.
C8_RoleNamesSortedKeys ==
    NodeRoleRendered =>
        LET names == displayed[1].roleNames
            data == displayed[1].data
        IN  /\ \A a, b \in 1..Len(names) : a < b => LexLess(names[a], names[b])
            /\ {names[k] : k \in 1..Len(names)} = DOMAIN data
            /\ Len(names) = Cardinality(DOMAIN data)
            /\ DOMAIN data = RolesObserved

\* Witness of C8: the first node is a worker and a later node has no role, so
\* that <none> was appended after worker and is rendered before it.
C8_Witness ==
    /\ NodeRoleRendered
    /\ Len(nodes) >= 2
    /\ PlacedRoles(nodes[1]) = {Worker}
    /\ displayed[1].roleNames = <<NoneRole, Worker>>

C10_ReadyCountedOncePerNode ==
    /\ ClusterRendered =>
          LET d == displayed[1].data
          IN  /\ d.TotalReadyNodeCount =
                     Cardinality({k \in 1..Len(nodes) : IsReady(nodes[k])})
              /\ 0 <= d.TotalReadyNodeCount
              /\ d.TotalReadyNodeCount <= d.TotalNodeCount
              /\ d.TotalUnreadyNodeCount >= 0
    /\ NodeRoleRendered =>
          \A r \in DOMAIN displayed[1].data :
              LET d == displayed[1].data[r]
              IN  /\ d.TotalReadyNodeCount =
                         Cardinality({k \in Members(r) : IsReady(nodes[k])})
                  /\ 0 <= d.TotalReadyNodeCount
                  /\ d.TotalReadyNodeCount <= d.TotalNodeCount
                  /\ d.TotalUnreadyNodeCount >= 0

====
